---- MODULE Spec2Model ----
(***************************************************************************)
(* A model of the workflow engine of app/: the graph interpreter           *)
(* (engine/graph.py), the tool registry (engine/registry.py), the          *)
(* in-memory stores (storage.py) and graph construction and the run        *)
(* endpoint (main.py).                                                     *)
(*                                                                         *)
(* A run of run_graph is a frame: a record holding the locals of the call  *)
(* (state, log, current, steps), the objects it can reach (the caller's    *)
(* initial_state mapping, the run's own mapping, the lists nested in       *)
(* them) and the position of the call.  The loop of run_graph is a         *)
(* function from frames to frames.                                         *)
(***************************************************************************)
EXTENDS Integers, Sequences, FiniteSets, TLC

\* ------------------------------------------------------------------------
\* Bounds of the model

\* the largest max_steps a checked graph carries
MaxSteps == 3

\* ------------------------------------------------------------------------
\* Python values held in a state mapping, tagged by type

None == "None"

NoneV == [t |-> "none", v |-> 0]

IntV(n) == [t |-> "int", v |-> n]

\* strings are told apart by an index that keeps their order
StrV(i) == [t |-> "str", v |-> i]

\* True and False: bool is a subclass of int (True == 1)
BoolV(b) == [t |-> "bool", v |-> IF b THEN 1 ELSE 0]

\* a reference to a list object of the frame (f.lists[a])
ListRef(a) == [t |-> "list", v |-> a]

\* the reference to the list object bound to the local `log`
LogRef == [t |-> "logref", v |-> 0]

\* the string f"Stopped after reaching max_steps={n}"
WarningV(n) == [t |-> "warning", v |-> n]

Numeric(x) == x.t \in {"int", "bool"}

\* dict.get(key, default)
Get(d, key, default) == IF key \in DOMAIN d THEN d[key] ELSE default

\* d[key] = val
Put(d, key, val) == [k \in DOMAIN d \cup {key} |-> IF k = key THEN val ELSE d[k]]

EmptyDict == [k \in {} |-> NoneV]

Min(a, b) == IF a <= b THEN a ELSE b

\* F(e), with e evaluated once, before F is applied to it
On(F(_), e) == CHOOSE y \in {F(x) : x \in {e}} : TRUE

\* ------------------------------------------------------------------------
\* Errors a run can raise

NoError == [kind |-> "None", name |-> "None"]

Err(kind, name) == [kind |-> kind, name |-> name]

\* ------------------------------------------------------------------------
\* Condition evaluator

\* Python's left == value
PyEq(left, value) ==
    IF Numeric(left) /\ Numeric(value) THEN left.v = value.v
    ELSE left.t = value.t /\ left.v = value.v

\* whether Python orders the two operands (otherwise <, >, <=, >= raise TypeError)
Ordered(left, value) ==
    \/ Numeric(left) /\ Numeric(value)
    \/ left.t = "str" /\ value.t = "str"

SupportedOps == {"==", "!=", ">", "<", ">=", "<="}

\* (mutant) an operator that is none of the six is read as ==
EvaluateConditionLenient(state, spec) ==
    IF spec.key = None
    THEN [err |-> Err("InvalidCondition", "key"), val |-> FALSE]
    ELSE LET left == Get(state, spec.key, NoneV)
             value == spec.value
         IN  CASE spec.op = "!=" -> [err |-> NoError, val |-> ~PyEq(left, value)]
               [] spec.op \in {">", "<", ">=", "<="} ->
                    IF ~Ordered(left, value)
                    THEN [err |-> Err("TypeMismatch", spec.key), val |-> FALSE]
                    ELSE [err |-> NoError,
                          val |-> CASE spec.op = ">" -> left.v > value.v
                                    [] spec.op = "<" -> left.v < value.v
                                    [] spec.op = ">=" -> left.v >= value.v
                                    [] OTHER -> left.v <= value.v]
               [] OTHER -> [err |-> NoError, val |-> PyEq(left, value)]

\* (mutant) left = state[key]: a key that is absent raises KeyError
EvaluateConditionStrictKey(state, spec) ==
    IF spec.key = None
    THEN [err |-> Err("InvalidCondition", "key"), val |-> FALSE]
    ELSE IF spec.key \notin DOMAIN state
    THEN [err |-> Err("KeyError", spec.key), val |-> FALSE]
    ELSE LET left == state[spec.key]
             value == spec.value
         IN  CASE spec.op = "==" -> [err |-> NoError, val |-> PyEq(left, value)]
               [] spec.op = "!=" -> [err |-> NoError, val |-> ~PyEq(left, value)]
               [] spec.op \in {">", "<", ">=", "<="} ->
                    IF ~Ordered(left, value)
                    THEN [err |-> Err("TypeMismatch", spec.key), val |-> FALSE]
                    ELSE [err |-> NoError,
                          val |-> CASE spec.op = ">" -> left.v > value.v
                                    [] spec.op = "<" -> left.v < value.v
                                    [] spec.op = ">=" -> left.v >= value.v
                                    [] OTHER -> left.v <= value.v]
               [] OTHER -> [err |-> Err("UnsupportedOperator", spec.op), val |-> FALSE]

\* _evaluate_condition(state, spec): [err |-> the error raised or NoError, val |-> the result]
EvaluateCondition(state, spec) ==
    IF spec.key = None
    THEN [err |-> Err("InvalidCondition", "key"), val |-> FALSE]
    ELSE LET left == Get(state, spec.key, NoneV)
             value == spec.value
         IN  CASE spec.op = "==" -> [err |-> NoError, val |-> PyEq(left, value)]
               [] spec.op = "!=" -> [err |-> NoError, val |-> ~PyEq(left, value)]
               [] spec.op \in {">", "<", ">=", "<="} ->
                    IF ~Ordered(left, value)
                    THEN [err |-> Err("TypeMismatch", spec.key), val |-> FALSE]
                    ELSE [err |-> NoError,
                          val |-> CASE spec.op = ">" -> left.v > value.v
                                    [] spec.op = "<" -> left.v < value.v
                                    [] spec.op = ">=" -> left.v >= value.v
                                    [] OTHER -> left.v <= value.v]
               [] OTHER -> [err |-> Err("UnsupportedOperator", spec.op), val |-> FALSE]

\* ------------------------------------------------------------------------
\* Step implementations (tools).  A call yields
\*   kind: "dict" (a mapping is returned), "notdict" (something else is), "raise"
\*   d: the mapping returned, or the mapping as the call left it
\*   lists: the list objects after the call
\*   fresh: whether the mapping returned is a new object (not the argument)

\* address of the list the caller's initial_state may hold
CallerList == 1

\* address of the list a step creates (setdefault("suggestions", []))
StepList == 2

\* suggest_improvements_tool: mutates its argument and the list nested in it.
\* "suggestions", when present, holds a list; "complexity_score" is never present
\* (get yields 0, and nothing is appended for it).
SuggestImprovements(d, lists) ==
    LET has == "suggestions" \in DOMAIN d
        d1 == IF has THEN d ELSE Put(d, "suggestions", ListRef(StepList))
        l1 == IF has THEN lists ELSE [lists EXCEPT ![StepList] = <<>>]
        sv == d1["suggestions"]
        issues == Get(d1, "issues", IntV(0))
        quality == Get(d1, "quality_score", IntV(50))
    IN  IF ~Numeric(issues)
        THEN [kind |-> "raise", d |-> d1, lists |-> l1, fresh |-> FALSE]
        ELSE LET s1 == IF issues.v > 0
                       THEN Append(l1[sv.v], "Address flagged TODOs and long lines.")
                       ELSE l1[sv.v]
                 s2 == IF s1 = <<>> THEN <<"Code looks clean.">> ELSE s1
                 l2 == [l1 EXCEPT ![sv.v] = s2]
             IN  IF ~Numeric(quality)
                 THEN [kind |-> "raise", d |-> d1, lists |-> l2, fresh |-> FALSE]
                 ELSE [kind |-> "dict",
                       d |-> Put(d1, "quality_score", IntV(Min(100, quality.v + 5))),
                       lists |-> l2, fresh |-> FALSE]

\* a step that returns a new mapping, {**state, "seen": True}
CopyMark(d, lists) ==
    [kind |-> "dict", d |-> Put(d, "seen", BoolV(TRUE)), lists |-> lists, fresh |-> TRUE]

\* a step that returns None
NotADict(d, lists) ==
    [kind |-> "notdict", d |-> d, lists |-> lists, fresh |-> FALSE]

SyncTools == {"suggest_improvements", "copy_mark", "not_a_dict"}

AsyncTools == {"async_suggest", "async_not_a_dict"}

Tools == SyncTools \cup AsyncTools

\* whether node_fn(state) is awaitable (inspect.isawaitable)
IsAwaitable(tool) == tool \in AsyncTools

\* the outcome of the tool's body
ToolBody(tool, d, lists) ==
    CASE tool \in {"suggest_improvements", "async_suggest"} -> SuggestImprovements(d, lists)
      [] tool = "copy_mark" -> CopyMark(d, lists)
      [] OTHER -> NotADict(d, lists)

\* ------------------------------------------------------------------------
\* Graphs

NodeNames == {"a", "b"}

\* edges[node] as the loop reads it: a node name (kind "str"), None (kind "none"),
\* a conditional spec (kind "conditional") or anything else (kind "other")
StrEdge(target) ==
    [kind |-> "str", target |-> target, key |-> None, op |-> None,
     value |-> NoneV, true |-> None, false |-> None]

NoneEdge ==
    [kind |-> "none", target |-> None, key |-> None, op |-> None,
     value |-> NoneV, true |-> None, false |-> None]

OtherEdge ==
    [kind |-> "other", target |-> None, key |-> None, op |-> None,
     value |-> NoneV, true |-> None, false |-> None]

CondEdge(key, op, value, t, f) ==
    [kind |-> "conditional", target |-> None, key |-> key, op |-> op,
     value |-> value, true |-> t, false |-> f]

\* graph.edges.get(node)
EdgeGet(graph, node) ==
    IF node \in DOMAIN graph.edges THEN graph.edges[node] ELSE NoneEdge

\* Graph(graph_id, nodes, edges, start_node, max_steps)
Graph(graph_id, nodes, edges, start_node, max_steps) ==
    [graph_id |-> graph_id, nodes |-> nodes, edges |-> edges,
     start_node |-> start_node, max_steps |-> max_steps]

\* ------------------------------------------------------------------------
\* Frames of run_graph

\* the mapping the local `state` is bound to
StateOf(f) == IF f.stateRef = "caller" THEN f.caller ELSE f.own

\* the mapping d with every reference replaced by what it refers to
DeepOf(d, lists, log) ==
    [k \in DOMAIN d |->
        IF d[k].t = "list" THEN [t |-> "list", items |-> lists[d[k].v]]
        ELSE IF d[k].t = "logref" THEN [t |-> "list", items |-> log]
        ELSE [t |-> d[k].t, items |-> <<d[k].v>>]]

Deep(f, d) == DeepOf(d, f.lists, f.log)

\* RunResult(final_state, log); NoResult while run_graph has not returned
NoResult == [final_state |-> EmptyDict, log |-> <<>>]

RunResult(final_state, log) == [final_state |-> final_state, log |-> log]

\* (mutant) state = {}: the run starts from an empty mapping
CopyStateEmpty(f) == [f EXCEPT !.own = EmptyDict, !.stateRef = "own"]

\* (mutant) state = initial_state: the run works on the caller's mapping
CopyStateAlias(f) == [f EXCEPT !.stateRef = "caller"]

\* state: Dict[str, Any] = dict(initial_state): a new mapping with the same items
CopyState(f) == [f EXCEPT !.own = f.caller, !.stateRef = "own"]

\* the frame of run_graph(graph, initial_state) after lines 86-90
NewFrame(graph, initial_state, lists) ==
    CopyState(
      [graph |-> graph,
       caller |-> initial_state,
       own |-> EmptyDict,
       stateRef |-> "caller",
       lists |-> lists,
       log |-> <<>>,
       current |-> graph.start_node,
       steps |-> 0,
       pc |-> "loop",
       outcome |-> "Running",
       reason |-> None,
       error |-> NoError,
       result |-> NoResult,
       \* history: what the caller passed (the mapping, and the mapping with its
       \* lists), what each step received and returned, the steps invoked and the
       \* nodes whose step completed
       given |-> initial_state,
       givenDeep |-> DeepOf(initial_state, lists, <<>>),
       passed |-> <<>>,
       returned |-> <<>>,
       invoked |-> 0,
       executed |-> <<>>])

\* the run has raised: no RunResult is produced
Raise(f, err) ==
    [f EXCEPT !.pc = "raised", !.outcome = "Failed", !.reason = err.kind, !.error = err]

\* (mutant) the node is looked up before the bound is tested
LoopGuardResolvesFirst(f) ==
    /\ f.current # None
    /\ f.steps < f.graph.max_steps \/ f.current \notin DOMAIN f.graph.nodes

\* the while condition of line 92
LoopGuard(f) == f.current # None /\ f.steps < f.graph.max_steps

\* (mutant) the step counter is never advanced
NextStepsStuck(steps) == steps

\* steps += 1
NextSteps(steps) == steps + 1

\* (mutant) log.insert(0, current)
AppendLogFront(log, current) == <<current>> \o log

\* log.append(current)
AppendLog(log, current) == Append(log, current)

\* lines 100-114: follow the edge of the node just executed
FollowEdge(f) ==
    LET edge == EdgeGet(f.graph, f.current)
    IN  CASE edge.kind = "none" ->
               [f EXCEPT !.pc = "break", !.outcome = "Terminated",
                         !.reason = "no_outgoing_edge"]
          [] edge.kind = "str" ->
               [f EXCEPT !.current = edge.target, !.steps = NextSteps(f.steps)]
          [] edge.kind = "conditional" ->
               LET c == EvaluateCondition(StateOf(f), edge)
                   target == IF c.val THEN edge.true ELSE edge.false
               IN  IF c.err # NoError THEN Raise(f, c.err)
                   ELSE IF target = None
                   THEN [f EXCEPT !.current = None, !.steps = NextSteps(f.steps),
                                  !.outcome = "Terminated", !.reason = "explicit_end"]
                   ELSE [f EXCEPT !.current = target, !.steps = NextSteps(f.steps)]
          [] OTHER -> Raise(f, Err("InvalidEdge", f.current))

\* the frame once the step has run on `state`: what the step did to its argument
\* and to the lists has happened, whatever it returns or raises
Called(f, r) ==
    [f EXCEPT !.pc = "loop",
              !.lists = r.lists,
              !.caller = IF f.stateRef = "caller" /\ ~r.fresh THEN r.d ELSE f.caller,
              !.own = IF f.stateRef = "own" /\ ~r.fresh THEN r.d ELSE f.own,
              !.invoked = f.invoked + 1,
              !.passed = Append(f.passed, Deep(f, StateOf(f)))]

\* lines 97-98: state = (the mapping returned); log.append(current)
Rebound(f, r) ==
    [f EXCEPT !.pc = "loop",
              !.lists = r.lists,
              !.caller = IF f.stateRef = "caller" /\ ~r.fresh THEN r.d ELSE f.caller,
              !.own = IF f.stateRef = "own" \/ r.fresh THEN r.d ELSE f.own,
              !.stateRef = IF r.fresh THEN "own" ELSE f.stateRef,
              !.invoked = f.invoked + 1,
              !.passed = Append(f.passed, Deep(f, StateOf(f))),
              !.returned = Append(f.returned, DeepOf(r.d, r.lists, f.log)),
              !.executed = Append(f.executed, f.current),
              !.log = AppendLog(f.log, f.current)]

\* (mutant) the edge is followed on the state the step received
AfterCallStale(f, tool) ==
    LET Continue(r) ==
          CASE r.kind = "raise" -> Raise(Called(f, r), Err("StepError", tool))
            [] r.kind = "notdict" -> Raise(Called(f, r), Err("InvalidStepOutput", tool))
            [] OTHER ->
                 LET post == Rebound(f, r)
                     g == FollowEdge([post EXCEPT !.own = StateOf(f), !.caller = StateOf(f)])
                 IN  [g EXCEPT !.own = post.own, !.caller = post.caller]
    IN  On(Continue, ToolBody(tool, StateOf(f), f.lists))

\* (mutant) the result of the step is not validated
AfterCallUnchecked(f, tool) ==
    LET Continue(r) ==
          CASE r.kind = "raise" -> Raise(Called(f, r), Err("StepError", tool))
            [] OTHER -> On(FollowEdge, Rebound(f, r))
    IN  On(Continue, ToolBody(tool, StateOf(f), f.lists))

\* lines 73-78 and 97-114, once the step's result is at hand: validate it, rebind
\* `state`, append to the log, then follow the edge
AfterCall(f, tool) ==
    LET Continue(r) ==
          CASE r.kind = "raise" -> Raise(Called(f, r), Err("StepError", tool))
            [] r.kind = "notdict" -> Raise(Called(f, r), Err("InvalidStepOutput", tool))
            [] OTHER -> On(FollowEdge, Rebound(f, r))
    IN  On(Continue, ToolBody(tool, StateOf(f), f.lists))

\* (mutant) the node is logged before it is looked up
LoopBodyLogsFirst(f) ==
    IF f.current \notin DOMAIN f.graph.nodes
    THEN Raise([f EXCEPT !.log = AppendLog(f.log, f.current)], Err("UnknownNode", f.current))
    ELSE LET tool == f.graph.nodes[f.current]
         IN  IF IsAwaitable(tool) THEN [f EXCEPT !.pc = "await"]
             ELSE AfterCall(f, tool)

\* one iteration of the while loop, up to the point where it suspends (an
\* awaitable result), raises, breaks or reaches the loop head again
LoopBody(f) ==
    IF f.current \notin DOMAIN f.graph.nodes
    THEN Raise(f, Err("UnknownNode", f.current))
    ELSE LET tool == f.graph.nodes[f.current]
         IN  IF IsAwaitable(tool) THEN [f EXCEPT !.pc = "await"]
             ELSE AfterCall(f, tool)

\* result = await result, and the rest of the iteration
ResumeBody(f) == AfterCall(f, f.graph.nodes[f.current])

\* lines 116-121: the warning, the log, the RunResult
WarningDue(f) == f.steps >= f.graph.max_steps

StoreLog(d) == Put(d, "_execution_log", LogRef)

ExitBody(f) ==
    LET aborted == f.pc = "loop" /\ f.current # None
        d0 == StateOf(f)
        d1 == IF WarningDue(f) THEN Put(d0, "_warning", WarningV(f.graph.max_steps)) ELSE d0
        d2 == StoreLog(d1)
        g == IF f.stateRef = "caller" THEN [f EXCEPT !.caller = d2] ELSE [f EXCEPT !.own = d2]
    IN  [g EXCEPT !.pc = "returned",
                  !.result = RunResult(Deep(g, d2), g.log),
                  !.outcome = IF aborted THEN "Aborted" ELSE f.outcome,
                  !.reason = IF aborted THEN "step_bound_reached" ELSE f.reason]

\* ------------------------------------------------------------------------
\* State

VARIABLES
    frames,     \* run slot -> the frame of a run_graph call (started, maybe finished)
    registry,   \* tool_registry._tools: tool name -> implementation
    GRAPHS,     \* storage.GRAPHS: graph id -> Graph
    RUNS,       \* storage.RUNS: run id -> run record
    response    \* what the last API call answered

vars == <<frames, registry, GRAPHS, RUNS, response>>

\* GraphCreateRequest as it arrives: a field is a value, null or not given at all
Unset == "Unset"

Null == "Null"

UnsetV == [t |-> "unset", v |-> 0]

NoRequest == [nodes |-> <<>>, edges |-> <<>>, start_node |-> None, max_steps |-> 0]

\* the body of an answer that carries no run: an error, or a graph identifier
NoBody == [graph_id |-> 0, state |-> EmptyDict, log |-> <<>>, status |-> None]

\* the last API call and its answer
NoResponse ==
    [call |-> "none", request |-> NoRequest, status |-> 0, detail |-> None, id |-> 0,
     body |-> NoBody]

\* ------------------------------------------------------------------------
\* The runs checked: run_graph called directly on a graph

StepBounds == (0 - 1) .. MaxSteps

\* conditions on the quality score, as the example workflows state them
Conditions ==
    {<<"quality_score", op, IntV(60)>> : op \in SupportedOps \cup {"~="}}
    \cup {<<"quality_score", ">=", NoneV>>, <<"quality_score", "==", NoneV>>,
          <<None, "==", IntV(60)>>}

EdgeTargets == NodeNames \cup {None}

\* the edge entries of the first node
EdgesOfA ==
    {NoneEdge, OtherEdge} \cup {StrEdge(t) : t \in NodeNames}
    \cup {CondEdge(c[1], c[2], c[3], t, f) : c \in Conditions, t \in EdgeTargets, f \in EdgeTargets}

\* the edge entries of the second node
EdgesOfB == {NoneEdge} \cup {StrEdge(t) : t \in NodeNames}

\* the second node's tool, or None when the graph has no such node
ToolsOfB == {None, "suggest_improvements", "copy_mark"}

\* the graph_id of a Graph a caller constructs itself
DirectId == 0

EngineGraph(ta, tb, ea, eb, start, bound) ==
    Graph(DirectId,
          [n \in (IF tb = None THEN {"a"} ELSE {"a", "b"}) |-> IF n = "a" THEN ta ELSE tb],
          [n \in ({"a"} \cup (IF eb = NoneEdge THEN {} ELSE {"b"})) |-> IF n = "a" THEN ea ELSE eb],
          start, bound)

NoLists == [a \in {CallerList, StepList} |-> <<>>]

\* the initial_state mappings a caller passes, with the lists they hold
InitialStates ==
    { [d |-> EmptyDict, lists |-> NoLists],
      [d |-> [k \in {"quality_score"} |-> StrV(1)], lists |-> NoLists],
      [d |-> [k \in {"suggestions"} |-> ListRef(CallerList)], lists |-> NoLists],
      [d |-> [k \in {"quality_score", "issues", "suggestions"} |->
                CASE k = "quality_score" -> IntV(50)
                  [] k = "issues" -> IntV(1)
                  [] OTHER -> ListRef(CallerList)],
       lists |-> NoLists] }

EngineGraphs ==
    {EngineGraph(ta, tb, ea, eb, start, bound) :
        ta \in Tools, tb \in ToolsOfB, ea \in EdgesOfA, eb \in EdgesOfB,
        start \in NodeNames, bound \in StepBounds}

NoFrames == [r \in {} |-> None]

\* nothing has been called yet
Init ==
    /\ frames = NoFrames
    /\ registry = [n \in {} |-> None]
    /\ GRAPHS = [g \in {} |-> None]
    /\ RUNS = [r \in {} |-> None]
    /\ response = NoResponse

\* ------------------------------------------------------------------------
\* Actions of a run

\* (mutant) log is one list shared by every call (a mutable default argument)
StoreFrameSharedLog(fs, r, f) ==
    [x \in DOMAIN fs |-> IF x = r THEN f ELSE [fs[x] EXCEPT !.log = f.log]]

\* the locals of call r after one of its steps; the locals of the other calls
\* are theirs alone
StoreFrame(fs, r, f) == [fs EXCEPT ![r] = f]

\* run_graph(graph, initial_state) is called: lines 86-90
Call(graph, i) ==
    /\ frames = NoFrames
    /\ frames' = [r \in {1} |-> NewFrame(graph, i.d, i.lists)]
    /\ UNCHANGED <<registry, GRAPHS, RUNS, response>>

\* one iteration of the while loop of run_graph
Iterate(r) ==
    /\ frames[r].pc = "loop"
    /\ LoopGuard(frames[r])
    /\ Len(frames[r].log) <= MaxSteps
    /\ frames' = StoreFrame(frames, r, LoopBody(frames[r]))
    /\ UNCHANGED <<registry, GRAPHS, RUNS, response>>

\* the awaited step completes and the iteration goes on
Resume(r) ==
    /\ frames[r].pc = "await"
    /\ frames' = StoreFrame(frames, r, ResumeBody(frames[r]))
    /\ UNCHANGED <<registry, GRAPHS, RUNS, response>>

\* the loop is left (its condition is false, or break): run_graph returns
LoopLeft(f) == f.pc = "break" \/ (f.pc = "loop" /\ ~LoopGuard(f))

Exit(r) ==
    /\ LoopLeft(frames[r])
    /\ frames' = StoreFrame(frames, r, ExitBody(frames[r]))
    /\ UNCHANGED <<registry, GRAPHS, RUNS, response>>

\* a caller calls run_graph once, on any graph and any initial state
CallAny ==
    /\ frames = NoFrames
    /\ \E graph \in EngineGraphs, i \in InitialStates : Call(graph, i)

\* the steps of the runs under way
RunNext ==
    \/ \E r \in DOMAIN frames : Iterate(r)
    \/ \E r \in DOMAIN frames : Resume(r)
    \/ \E r \in DOMAIN frames : Exit(r)

Next == CallAny \/ RunNext

Spec == Init /\ [][Next]_vars

\* The graph shapes termination is checked on: every tool, every kind of edge,
\* cycles through one node and through two, conditions that hold, fail and raise,
\* steps that raise, every step bound.
ShapeConditions == {<<"quality_score", ">=", IntV(60)>>, <<"quality_score", "~=", IntV(60)>>}

ShapeEdgesOfA ==
    {NoneEdge, OtherEdge} \cup {StrEdge(t) : t \in NodeNames}
    \cup {CondEdge(c[1], c[2], c[3], t, f) :
            c \in ShapeConditions, t \in EdgeTargets, f \in EdgeTargets}

ShapeGraphs ==
    {EngineGraph(ta, tb, ea, eb, start, bound) :
        ta \in Tools, tb \in ToolsOfB, ea \in ShapeEdgesOfA, eb \in EdgesOfB,
        start \in NodeNames, bound \in StepBounds}

ShapeStates == {i \in InitialStates : "suggestions" \notin DOMAIN i.d}

CallShape ==
    /\ frames = NoFrames
    /\ \E graph \in ShapeGraphs, i \in ShapeStates : Call(graph, i)

ShapeNext == CallShape \/ RunNext

\* A run under way runs on by itself, and every awaited step is assumed to
\* complete; nothing obliges a caller to call.
FairSpec == Init /\ [][ShapeNext]_vars /\ WF_vars(RunNext)

\* ------------------------------------------------------------------------
\* Concurrent runs: calls of run_graph interleaved at their awaits

\* the calls of run_graph that can be under way together
MaxConcurrent == 2

\* a cycle and the quality loop, on a step that is awaited and on one that is not
ConcGraphs ==
    {EngineGraph(ta, None, ea, NoneEdge, "a", MaxSteps) :
        ta \in {"async_suggest", "copy_mark"},
        ea \in {StrEdge("a"), CondEdge("quality_score", ">=", IntV(60), None, "a")}}

\* each call is given a mapping of its own, with a list of its own when it has one
ConcStates == {i \in InitialStates : i.d = EmptyDict \/ "issues" \in DOMAIN i.d}

\* run_graph is called while earlier calls may be suspended
ConcCall(graph, i) ==
    LET r == Cardinality(DOMAIN frames) + 1
    IN  /\ r <= MaxConcurrent
        /\ frames' = [x \in DOMAIN frames \cup {r} |->
                         IF x = r THEN NewFrame(graph, i.d, i.lists) ELSE frames[x]]
        /\ UNCHANGED <<registry, GRAPHS, RUNS, response>>

ConcCallAny == \E graph \in ConcGraphs, i \in ConcStates : ConcCall(graph, i)

ConcNext == ConcCallAny \/ RunNext

ConcSpec == Init /\ [][ConcNext]_vars

\* ------------------------------------------------------------------------
\* Registry and graph construction

\* ToolRegistry.register(name, fn)
RegistryPut(reg, name, fn) ==
    [n \in DOMAIN reg \cup {name} |-> IF n = name THEN fn ELSE reg[n]]

\* an Optional[str] field of EdgeSpec: null and a field not given both parse to None
ParseStr(x) == IF x \in {Unset, Null} THEN None ELSE x

\* condition_value: Optional[Any] = None
ParseValue(x) == IF x.t \in {"unset", "none"} THEN NoneV ELSE x

\* EdgeSpec(**raw)
EdgeSpec(raw) ==
    [source |-> raw.source,
     type |-> raw.type,
     target |-> ParseStr(raw.target),
     condition_key |-> ParseStr(raw.condition_key),
     condition_op |-> ParseStr(raw.condition_op),
     condition_value |-> ParseValue(raw.condition_value),
     true_target |-> ParseStr(raw.true_target),
     false_target |-> ParseStr(raw.false_target)]

\* (mutant) the test of line 118 without condition_key
ConditionIncompleteKeyless(e) ==
    e.condition_op = None \/ e.condition_value = NoneV

\* line 118: a conditional edge without key, op or value
ConditionIncomplete(e) ==
    e.condition_key = None \/ e.condition_op = None \/ e.condition_value = NoneV

\* line 123: a conditional edge without any target
TargetsMissing(e) == e.true_target = None /\ e.false_target = None

\* lines 109-127: why the edge is refused, or None
EdgeFault(e) ==
    IF e.type = "normal"
    THEN IF e.target = None THEN "NormalEdgeWithoutTarget" ELSE None
    ELSE IF ConditionIncomplete(e) THEN "ConditionalEdgeInvalid"
    ELSE IF TargetsMissing(e) THEN "ConditionalEdgeWithoutTarget"
    ELSE None

\* lines 115 and 128-135: the entry stored in edges
EdgeEntry(e) ==
    IF e.type = "normal" THEN StrEdge(e.target)
    ELSE CondEdge(e.condition_key, e.condition_op, e.condition_value,
                  e.true_target, e.false_target)

\* the first index from i on whose element satisfies Bad, or 0
RECURSIVE FirstBad(_, _, _)
FirstBad(Bad(_), seq, i) ==
    IF i > Len(seq) THEN 0
    ELSE IF Bad(seq[i]) THEN i
    ELSE FirstBad(Bad, seq, i + 1)

\* the last element of seq with the given key: a later dict assignment wins
LastWith(Key(_), seq, k) ==
    seq[CHOOSE i \in 1 .. Len(seq) :
            /\ Key(seq[i]) = k
            /\ \A j \in (i + 1) .. Len(seq) : Key(seq[j]) # k]

NodeName(n) == n.name

EdgeSource(e) == e.source

\* build_graph_from_request up to line 144: the Graph, or the HTTPException raised
Build(req, reg, graph_id) ==
    LET Unregistered(n) == n.tool_name \notin DOMAIN reg
        badNode == FirstBad(Unregistered, req.nodes, 1)
        specs == [i \in 1 .. Len(req.edges) |-> EdgeSpec(req.edges[i])]
        Faulty(e) == EdgeFault(e) # None
        badEdge == FirstBad(Faulty, specs, 1)
    IN  IF badNode # 0
        THEN [ok |-> FALSE, detail |-> "ToolNotRegistered", graph |-> None]
        ELSE IF badEdge # 0
        THEN [ok |-> FALSE, detail |-> EdgeFault(specs[badEdge]), graph |-> None]
        ELSE [ok |-> TRUE, detail |-> None,
              graph |-> Graph(graph_id,
                              [n \in {req.nodes[i].name : i \in 1 .. Len(req.nodes)} |->
                                  reg[LastWith(NodeName, req.nodes, n).tool_name]],
                              [n \in {specs[i].source : i \in 1 .. Len(specs)} |->
                                  EdgeEntry(LastWith(EdgeSource, specs, n))],
                              req.start_node, req.max_steps)]

\* save_graph(graph)
SaveGraph(store, graph) ==
    [g \in DOMAIN store \cup {graph.graph_id} |->
        IF g = graph.graph_id THEN graph ELSE store[g]]

\* str(uuid4()): an identifier no stored graph has
FreshGraphId == Cardinality(DOMAIN GRAPHS) + 1

\* the graphs the store can hold in the model
MaxGraphs == 1

\* ------------------------------------------------------------------------
\* The construction requests

ToolNames == {"suggest_improvements", "copy_mark"}

RawNormal(target) ==
    [source |-> "a", type |-> "normal", target |-> target,
     condition_key |-> Unset, condition_op |-> Unset, condition_value |-> UnsetV,
     true_target |-> Unset, false_target |-> Unset]

RawConditional(key, op, value, t, f) ==
    [source |-> "a", type |-> "conditional", target |-> Unset,
     condition_key |-> key, condition_op |-> op, condition_value |-> value,
     true_target |-> t, false_target |-> f]

\* the condition of a request: complete, or with one of its three fields left out
RawConditions ==
    { <<"quality_score", ">=", IntV(60)>>, <<Unset, ">=", IntV(60)>>,
      <<"quality_score", Unset, IntV(60)>>, <<"quality_score", ">=", UnsetV>> }

\* the two targets of a request: both left out, both null (terminate), one of each
RawTargets == { <<Unset, Unset>>, <<Null, Null>>, <<Null, "a">>, <<"b", Unset>> }

RawEdges ==
    {RawNormal(t) : t \in {Unset, "a", "b"}}
    \cup {RawConditional(c[1], c[2], c[3], tf[1], tf[2]) : c \in RawConditions, tf \in RawTargets}

\* no edge, one edge, or a valid edge followed by another one for the same source
RawEdgeLists ==
    {<<>>} \cup {<<e>> : e \in RawEdges}
    \cup {<<RawNormal("b"), e>> :
            e \in {RawNormal("a"), RawNormal(Unset),
                   RawConditional(Unset, ">=", IntV(60), Null, "a")}}

Request(tool, edges, start, bound) ==
    [nodes |-> <<[name |-> "a", tool_name |-> tool]>>,
     edges |-> edges, start_node |-> start, max_steps |-> bound]

\* every edge list on a registered tool; either tool; either start node and bound
RawRequests ==
    {Request("suggest_improvements", edges, "a", MaxSteps) : edges \in RawEdgeLists}
    \cup {Request(tool, edges, "a", MaxSteps) :
            tool \in ToolNames,
            edges \in {<<>>, <<RawConditional(Unset, ">=", IntV(60), Null, "a")>>}}
    \cup {Request("suggest_improvements", edges, start, bound) :
            edges \in {<<>>, <<RawNormal("a")>>},
            start \in NodeNames,
            bound \in {0, MaxSteps}}

NoGraphs == [g \in {} |-> None]

NoRuns == [r \in {} |-> None]

\* run_graph(graph, initial_state) awaited to its end
RECURSIVE RunToEnd(_)
RunToEnd(f) ==
    IF f.pc = "await" THEN On(RunToEnd, ResumeBody(f))
    ELSE IF f.pc = "loop" /\ LoopGuard(f) THEN On(RunToEnd, LoopBody(f))
    ELSE IF LoopLeft(f) THEN ExitBody(f)
    ELSE f

NoTools == [n \in {} |-> None]

\* the application as imported: ToolRegistry() and the two stores are empty
\* (on_startup then registers the tools; its example graphs are not modelled)
BuildInit ==
    /\ frames = NoFrames
    /\ registry = NoTools
    /\ GRAPHS = NoGraphs
    /\ RUNS = NoRuns
    /\ response = NoResponse

\* tool_registry.register(name, fn), as the register_*_tools functions call it
Register(name, fn) ==
    /\ registry' = RegistryPut(registry, name, fn)
    /\ UNCHANGED <<frames, GRAPHS, RUNS, response>>

\* POST /graph/create: build_graph_from_request, and the answer
CreateGraph(req) ==
    LET b == Build(req, registry, FreshGraphId)
    IN  /\ b.ok => Cardinality(DOMAIN GRAPHS) < MaxGraphs
        /\ GRAPHS' = IF b.ok THEN SaveGraph(GRAPHS, b.graph) ELSE GRAPHS
        /\ response' = [call |-> "create", request |-> req,
                        status |-> IF b.ok THEN 200 ELSE 400,
                        detail |-> b.detail,
                        id |-> IF b.ok THEN b.graph.graph_id ELSE 0,
                        body |-> NoBody]
        /\ UNCHANGED <<frames, registry, RUNS>>

RegisterAny == \E name \in ToolNames : Register(name, name)

CreateAny == \E req \in RawRequests : CreateGraph(req)

BuildNext == RegisterAny \/ CreateAny

BuildSpec == BuildInit /\ [][BuildNext]_vars

\* ------------------------------------------------------------------------
\* The run endpoint and the run store

\* the run records the store can hold in the model
MaxRuns == 2

\* (mutant) the steps of a stored graph are looked up in the registry at each run
GetGraphRebound(store, graph_id) ==
    [store[graph_id] EXCEPT
        !.nodes = [n \in DOMAIN @ |->
                     IF "suggest_improvements" \in DOMAIN registry
                     THEN registry["suggest_improvements"] ELSE @[n]]]

\* get_graph(graph_id), for an identifier in the store
GetGraph(store, graph_id) == store[graph_id]

\* (mutant) run_id is an identifier that a record already has, when there is one
FreshRunIdReused ==
    IF DOMAIN RUNS = {} THEN Cardinality(DOMAIN RUNS) + 1
    ELSE CHOOSE r \in DOMAIN RUNS : TRUE

\* str(uuid4()): an identifier no run record has
FreshRunId == Cardinality(DOMAIN RUNS) + 1

\* the record create_run stores (the two timestamps are left out)
RunRecord(graph_id, result) ==
    [graph_id |-> graph_id, state |-> result.final_state, log |-> result.log,
     status |-> "completed"]

\* RUNS[run_id] = {...}
CreateRun(store, run_id, graph_id, result) ==
    [r \in DOMAIN store \cup {run_id} |->
        IF r = run_id THEN RunRecord(graph_id, result) ELSE store[r]]

\* (mutant) create_run is called in a finally clause
ReachesCreateRunAlways(f) == TRUE

\* line 169 is reached only when run_graph returned: an exception leaves the handler
ReachesCreateRun(f) == f.pc = "returned"

RunRequest(graph_id, i) == [graph_id |-> graph_id, initial_state |-> i]

\* POST /graph/run.  The registered tools are synchronous, so the handler runs
\* from its first line to its last without suspending.
RunGraphEndpoint(graph_id, i) ==
    IF graph_id \notin DOMAIN GRAPHS
    THEN /\ response' = [call |-> "run", request |-> RunRequest(graph_id, i),
                         status |-> 404, detail |-> "GraphNotFound", id |-> 0,
                         body |-> NoBody]
         /\ UNCHANGED <<frames, registry, GRAPHS, RUNS>>
    ELSE LET f == RunToEnd(NewFrame(GetGraph(GRAPHS, graph_id), i.d, i.lists))
             run_id == FreshRunId
         IN  /\ ReachesCreateRun(f) => Cardinality(DOMAIN RUNS) < MaxRuns
             /\ RUNS' = IF ReachesCreateRun(f)
                        THEN CreateRun(RUNS, run_id, graph_id, f.result)
                        ELSE RUNS
             /\ response' =
                   IF f.pc = "returned"
                   THEN [call |-> "run", request |-> RunRequest(graph_id, i),
                         status |-> 200, detail |-> None, id |-> run_id,
                         body |-> [graph_id |-> graph_id, state |-> f.result.final_state,
                                   log |-> f.result.log, status |-> None]]
                   ELSE [call |-> "run", request |-> RunRequest(graph_id, i),
                         status |-> 500, detail |-> f.error.kind, id |-> 0,
                         body |-> NoBody]
             /\ UNCHANGED <<frames, registry, GRAPHS>>

\* GET /graph/state/{run_id}
GetRunState(run_id) ==
    /\ response' =
          IF run_id \in DOMAIN RUNS
          THEN [call |-> "state", request |-> RunRequest(0, run_id),
                status |-> 200, detail |-> None, id |-> run_id, body |-> RUNS[run_id]]
          ELSE [call |-> "state", request |-> RunRequest(0, run_id),
                status |-> 404, detail |-> "RunNotFound", id |-> 0, body |-> NoBody]
    /\ UNCHANGED <<frames, registry, GRAPHS, RUNS>>

\* the requests of the API runs: no edge, a cycle, an edge to a missing node, the
\* quality loop of the code review workflow, an operator that does not exist
ApiEdgeLists ==
    {<<>>, <<RawNormal("a")>>, <<RawNormal("b")>>,
     <<RawConditional("quality_score", ">=", IntV(60), Null, "a")>>,
     <<RawConditional("quality_score", "~=", IntV(60), Null, "a")>>}

ApiRequests ==
    {Request("suggest_improvements", edges, "a", MaxSteps) : edges \in ApiEdgeLists}

\* the implementations registered under the name of the tool
ApiTools == SyncTools

\* the initial_state of a run request: empty, or with a score that is no number
ApiStates == {i \in InitialStates : "suggestions" \notin DOMAIN i.d}

GraphIds == 1 .. MaxGraphs + 1

RunIds == 1 .. MaxRuns + 1

ApiRegister == \E fn \in ApiTools : Register("suggest_improvements", fn)

ApiCreate == \E req \in ApiRequests : CreateGraph(req)

ApiRun == \E graph_id \in GraphIds, i \in ApiStates : RunGraphEndpoint(graph_id, i)

ApiState == \E run_id \in RunIds : GetRunState(run_id)

ApiNext == ApiRegister \/ ApiCreate \/ ApiRun \/ ApiState

ApiSpec == BuildInit /\ [][ApiNext]_vars

\* ------------------------------------------------------------------------
\* Properties of a run

Frames == {frames[r] : r \in DOMAIN frames}

Returned(f) == f.pc = "returned"

Raised(f) == f.pc = "raised"

\* the node's edge leads back to the node itself, unconditionally
SelfLoop(f, n) == EdgeGet(f.graph, n) = StrEdge(n)

\* C1: in every reachable state of the run loop the trace is no longer than the
\* graph's step bound, whatever the graph and the initial state.
C1_TraceWithinStepBound ==
    \A f \in Frames : Len(f.log) <= f.graph.max_steps

\* The same bound for the graphs whose step bound is not negative.
TraceWithinNonNegativeBound ==
    \A f \in Frames : f.graph.max_steps >= 0 => Len(f.log) <= f.graph.max_steps

\* C2: every run eventually stops, as exactly one of Terminated, Aborted or
\* Failed, for any graph shape (every awaited step being assumed to return).
Stopped(f) ==
    /\ f.pc \in {"returned", "raised"}
    /\ f.outcome \in {"Terminated", "Aborted", "Failed"}
    /\ (f.outcome = "Failed") = Raised(f)
    /\ (f.outcome = "Aborted") = (f.reason = "step_bound_reached")
    /\ (f.outcome = "Terminated") = (f.reason \in {"explicit_end", "no_outgoing_edge"})

C2_RunEventuallyStops ==
    (\E f \in Frames : f.pc = "loop" /\ f.steps = 0 /\ f.log = <<>>)
        ~> (\A f \in Frames : Stopped(f))

\* a run of an unconditional cycle has been stopped by the bound after MaxSteps steps
C2_CycleStopped ==
    \E f \in Frames :
        /\ Returned(f) /\ f.outcome = "Aborted"
        /\ SelfLoop(f, "a") /\ f.log = [i \in 1 .. MaxSteps |-> "a"]

\* C3: a run stopped by the step bound returns a result whose trace has exactly
\* max_steps entries and whose final state carries _warning.
C3_AbortedRunHasFullTraceAndWarning ==
    \A f \in Frames :
        (Returned(f) /\ f.outcome = "Aborted") =>
            /\ Len(f.result.log) = f.graph.max_steps
            /\ "_warning" \in DOMAIN f.result.final_state

\* C4: a run that ends as Terminated returns a final state without _warning.
C4_TerminatedRunHasNoWarning ==
    \A f \in Frames :
        (Returned(f) /\ f.outcome = "Terminated") =>
            "_warning" \notin DOMAIN f.result.final_state

\* C5: the trace is at every point the sequence of the nodes whose step
\* completed, in order; a node whose step failed is not appended; and on return
\* the trace stored under _execution_log is the trace of the result.
C5_TraceCorrect ==
    \A f \in Frames :
        /\ f.log = f.executed
        /\ Len(f.log) = Len(f.returned)
        /\ f.error.kind \in {"StepError", "InvalidStepOutput"} => Len(f.log) = f.invoked - 1
        /\ f.error.kind \notin {"StepError", "InvalidStepOutput"} => Len(f.log) = f.invoked
        /\ Returned(f) =>
              /\ f.result.log = f.executed
              /\ "_execution_log" \in DOMAIN f.result.final_state
              /\ f.result.final_state["_execution_log"].items = f.result.log

\* a run has returned a trace of two different nodes
C5_TwoNodeTraceReturned ==
    \E f \in Frames : Returned(f) /\ f.result.log = <<"a", "b">>

\* C6: the first step receives a state equal to the caller's initial state, and
\* each later step receives exactly the state the step before it returned.
C6_StateThreaded ==
    \A f \in Frames :
        /\ Len(f.passed) >= 1 => f.passed[1] = f.givenDeep
        /\ \A n \in 1 .. Len(f.passed) - 1 : f.passed[n + 1] = f.returned[n]
        /\ \A n \in 1 .. Len(f.passed) :
              {"_warning", "_execution_log"} \cap DOMAIN f.passed[n] = {}

\* a third step has received a state that earlier steps changed
C6_ThirdStepReached ==
    \E f \in Frames :
        /\ Len(f.passed) = 3
        /\ f.passed[3] # f.givenDeep
        /\ f.passed[3] # f.passed[2]

\* C7 (as claimed): after the run, whatever its outcome, the caller's
\* initial_state has the same keys and the same values as before it.
C7_InitialStateUntouched ==
    \A f \in Frames : DeepOf(f.caller, f.lists, f.log) = f.givenDeep

\* C7 (amended): the caller's mapping itself is never changed: it keeps its keys,
\* each bound to the value (for a list, the list object) it was bound to.
C7_InitialMappingUntouched ==
    \A f \in Frames : f.caller = f.given

\* a run whose steps changed their argument in place has returned with a warning
C7_InPlaceRunReturned ==
    \E f \in Frames :
        /\ Returned(f)
        /\ "_warning" \in DOMAIN f.result.final_state
        /\ f.graph.nodes["a"] = "suggest_improvements"
        /\ Len(f.log) >= 1

\* C8: when the loop, below the bound, reaches a node name that is no key of
\* nodes, the run raises UnknownNode naming it: no step is invoked, the trace
\* is unchanged and no result is returned.
C8_UnknownNodeFails ==
    [][\A r \in DOMAIN frames :
          (/\ frames[r].pc = "loop"
           /\ LoopGuard(frames[r])
           /\ frames[r].current \notin DOMAIN frames[r].graph.nodes)
          => (\/ frames'[r] = frames[r]
              \/ /\ frames'[r].pc = "raised"
                 /\ frames'[r].error = Err("UnknownNode", frames[r].current)
                 /\ frames'[r].log = frames[r].log
                 /\ frames'[r].invoked = frames[r].invoked
                 /\ frames'[r].result = NoResult)]_vars

\* a run has failed on an edge target that is no node, after executing a node
C8_UnknownTargetFailed ==
    \E f \in Frames :
        /\ Raised(f) /\ f.error = Err("UnknownNode", "b")
        /\ f.log = <<"a">>

\* ------------------------------------------------------------------------
\* Properties of graph construction

\* the last call was POST /graph/create and this step made it
Created == response' # response /\ response'.call = "create"

Lacks(x) == x \in {Unset, Null}

LacksValue(x) == x \in {UnsetV, NoneV}

EdgesOf(req) == {req.edges[i] : i \in 1 .. Len(req.edges)}

ToolsOf(req) == {req.nodes[i].tool_name : i \in 1 .. Len(req.nodes)}

ConditionalLacksField(e) ==
    /\ e.type = "conditional"
    /\ Lacks(e.condition_key) \/ Lacks(e.condition_op) \/ LacksValue(e.condition_value)

NormalLacksTarget(e) == e.type = "normal" /\ Lacks(e.target)

\* every entry of a stored graph is complete
WellBuilt(g) ==
    /\ \A n \in DOMAIN g.nodes : g.nodes[n] \in Tools
    /\ \A n \in DOMAIN g.edges :
          /\ g.edges[n].kind \in {"str", "conditional"}
          /\ g.edges[n].kind = "str" => g.edges[n].target # None
          /\ g.edges[n].kind = "conditional" =>
                /\ g.edges[n].key # None
                /\ g.edges[n].op # None
                /\ g.edges[n].value # NoneV

\* C9: a construction request naming an unregistered tool, holding a
\* conditional edge without condition_key, condition_op or condition_value, or
\* a normal edge without target, is answered with an error and leaves the graph
\* store unchanged; so every stored graph is complete and no run of a stored
\* graph fails on a condition without a key.
C9_DefectiveRequestRejected ==
    /\ [][Created =>
            LET req == response'.request
            IN  (\/ ToolsOf(req) \ DOMAIN registry # {}
                 \/ \E e \in EdgesOf(req) : ConditionalLacksField(e) \/ NormalLacksTarget(e))
                => /\ response'.status = 400
                   /\ response'.detail # None
                   /\ GRAPHS' = GRAPHS]_vars
    /\ [](\A g \in DOMAIN GRAPHS :
            /\ WellBuilt(GRAPHS[g])
            /\ \A i \in InitialStates :
                  RunToEnd(NewFrame(GRAPHS[g], i.d, i.lists)).reason # "InvalidCondition")

\* a conditional edge without condition_key was refused while a graph was stored
C9_KeylessEdgeRefused ==
    /\ response.call = "create"
    /\ response.status = 400
    /\ response.detail = "ConditionalEdgeInvalid"
    /\ \E e \in EdgesOf(response.request) : e.type = "conditional" /\ e.condition_key = Unset
    /\ DOMAIN GRAPHS # {}
    /\ \E g \in DOMAIN GRAPHS, i \in InitialStates :
          /\ GRAPHS[g].edges # [n \in {} |-> None]
          /\ GRAPHS[g].edges["a"].kind = "conditional"
          /\ RunToEnd(NewFrame(GRAPHS[g], i.d, i.lists)).reason = "explicit_end"

BothTargets(e, x) ==
    /\ e.type = "conditional"
    /\ ~ConditionalLacksField(e)
    /\ e.true_target = x /\ e.false_target = x

\* a graph built by hand whose conditional edge terminates both ways
TerminateBothWays ==
    Graph(DirectId, [n \in {"a"} |-> "suggest_improvements"],
          [n \in {"a"} |-> CondEdge("quality_score", ">=", IntV(60), None, None)],
          "a", MaxSteps)

\* C10: construction refuses a conditional edge with both targets left out and
\* accepts one with both targets the terminate sentinel; a run of such a graph
\* ends with explicit_end right after the source node, whichever way the
\* condition evaluates.
C10_BothTerminateAccepted ==
    /\ [][Created =>
            LET req == response'.request
            IN  /\ (\E e \in EdgesOf(req) : BothTargets(e, Unset))
                   => response'.status = 400 /\ GRAPHS' = GRAPHS
                /\ (/\ ToolsOf(req) \subseteq DOMAIN registry
                    /\ Len(req.edges) = 1
                    /\ BothTargets(req.edges[1], Null))
                   => /\ response'.status = 200
                      /\ response'.id \in DOMAIN GRAPHS' \ DOMAIN GRAPHS]_vars
    /\ [](\A i \in InitialStates :
            LET f == RunToEnd(NewFrame(TerminateBothWays, i.d, i.lists))
            IN  f.outcome # "Failed" =>
                  /\ f.outcome = "Terminated" /\ f.reason = "explicit_end"
                  /\ f.log = <<"a">>)

\* the node names an edge entry refers to
TargetsOf(edge) ==
    CASE edge.kind = "str" -> {edge.target}
      [] edge.kind = "conditional" -> {edge.true, edge.false}
      [] OTHER -> {}

\* C11: every stored graph has its start node among its nodes, and every
\* target of its edges (direct, true or false) is one of its nodes or the
\* terminate sentinel.
C11_StoredGraphInvariants ==
    \A g \in DOMAIN GRAPHS :
        /\ GRAPHS[g].start_node \in DOMAIN GRAPHS[g].nodes
        /\ \A n \in DOMAIN GRAPHS[g].edges :
              TargetsOf(GRAPHS[g].edges[n]) \subseteq DOMAIN GRAPHS[g].nodes \cup {None}

\* C12: every stored graph has max_steps >= 1, so every run of a stored graph
\* whose start node is one of its nodes invokes at least that node.
C12_StoredBoundPositive ==
    \A g \in DOMAIN GRAPHS :
        /\ GRAPHS[g].max_steps >= 1
        /\ GRAPHS[g].start_node \in DOMAIN GRAPHS[g].nodes =>
              \A i \in InitialStates :
                  RunToEnd(NewFrame(GRAPHS[g], i.d, i.lists)).invoked >= 1

\* ------------------------------------------------------------------------
\* Properties of the run endpoint and the run store

\* the last call was POST /graph/run and this step made it
Ran == response' # response /\ response'.call = "run"

\* the last call was GET /graph/state and this step made it
Retrieved == response' # response /\ response'.call = "state"

\* the run of the stored graph on the request's initial state, from the stores
\* as they are before the step
RunOf(q) ==
    RunToEnd(NewFrame(GRAPHS[q.graph_id], q.initial_state.d, q.initial_state.lists))

\* C13: a run invocation that fails answers with the error and no result, and
\* leaves the run store and the graph store as they were; so does a run
\* invocation naming a graph identifier that is not in the store, which is
\* answered not-found.
C13_FailedRunCommitsNothing ==
    [][Ran =>
         LET q == response'.request
         IN  /\ q.graph_id \notin DOMAIN GRAPHS =>
                   /\ response'.status = 404
                   /\ response'.body = NoBody /\ response'.id = 0
                   /\ RUNS' = RUNS /\ GRAPHS' = GRAPHS /\ frames' = frames
             /\ (q.graph_id \in DOMAIN GRAPHS /\ RunOf(q).outcome = "Failed") =>
                   /\ response'.status = 500
                   /\ response'.detail = RunOf(q).reason
                   /\ response'.body = NoBody /\ response'.id = 0
                   /\ RUNS' = RUNS /\ GRAPHS' = GRAPHS]_vars

\* a run has failed inside a step after a run of the same graph left a record
C13_FailedAfterRecord ==
    /\ response.call = "run"
    /\ response.status = 500
    /\ response.detail = "StepError"
    /\ \E r \in DOMAIN RUNS : RUNS[r].graph_id = response.request.graph_id

\* C14: a run that completes adds exactly one record, under an identifier no
\* record had, holding the graph identifier, final state and trace of that
\* run; no step changes or removes a record that exists; retrieval answers with
\* the record stored under the identifier, and with not-found when there is none.
C14_RunRecords ==
    /\ [][Ran /\ response'.status = 200 =>
             LET q == response'.request
                 run_id == response'.id
             IN  /\ run_id \notin DOMAIN RUNS
                 /\ DOMAIN RUNS' = DOMAIN RUNS \cup {run_id}
                 /\ RunOf(q).outcome \in {"Terminated", "Aborted"}
                 /\ response'.body.state = RunOf(q).result.final_state
                 /\ response'.body.log = RunOf(q).result.log
                 /\ RUNS'[run_id] = [graph_id |-> q.graph_id,
                                     state |-> response'.body.state,
                                     log |-> response'.body.log,
                                     status |-> "completed"]]_vars
    /\ [][(/\ Ran
            /\ response'.request.graph_id \in DOMAIN GRAPHS
            /\ RunOf(response'.request).outcome \in {"Terminated", "Aborted"})
             => response'.status = 200]_vars
    /\ [][\A r \in DOMAIN RUNS : r \in DOMAIN RUNS' /\ RUNS'[r] = RUNS[r]]_vars
    /\ [][Ran /\ response'.status # 200 => RUNS' = RUNS]_vars
    /\ [][Retrieved =>
             LET run_id == response'.request.initial_state
             IN  /\ RUNS' = RUNS
                 /\ run_id \in DOMAIN RUNS =>
                       /\ response'.status = 200 /\ response'.id = run_id
                       /\ response'.body = RUNS[run_id]
                 /\ run_id \notin DOMAIN RUNS =>
                       response'.status = 404 /\ response'.body = NoBody]_vars

\* the first of two different records has been retrieved after the second run
C14_FirstRecordRetrieved ==
    /\ response.call = "state" /\ response.status = 200 /\ response.id = 1
    /\ Cardinality(DOMAIN RUNS) = MaxRuns
    /\ \A r \in DOMAIN RUNS : r # 1 => RUNS[r] # RUNS[1]
    /\ response.body = RUNS[1]
    /\ Len(RUNS[1].log) >= 1

\* C15: construction binds each node to the implementation the registry holds
\* at that time; register replaces the entry of the registry and nothing else;
\* no step changes a stored graph, and every run of a stored graph is the run of
\* the implementations bound in it, whatever the registry holds by then.
C15_BoundAtConstruction ==
    /\ [][Created /\ response'.status = 200 =>
             LET req == response'.request
                 g == GRAPHS'[response'.id]
             IN  \A k \in 1 .. Len(req.nodes) :
                     g.nodes[req.nodes[k].name] = registry[req.nodes[k].tool_name]]_vars
    /\ [][registry' # registry =>
             /\ \E n \in ToolNames, fn \in Tools :
                    /\ registry' = RegistryPut(registry, n, fn)
                    /\ registry'[n] = fn
             /\ GRAPHS' = GRAPHS]_vars
    /\ [][\A g \in DOMAIN GRAPHS : g \in DOMAIN GRAPHS' /\ GRAPHS'[g] = GRAPHS[g]]_vars
    /\ [][(Ran /\ response'.request.graph_id \in DOMAIN GRAPHS) =>
             LET f == RunOf(response'.request)
             IN  /\ registry' = registry
                 /\ f.outcome = "Failed" => response'.detail = f.reason
                 /\ f.outcome # "Failed" =>
                       /\ response'.body.state = f.result.final_state
                       /\ response'.body.log = f.result.log]_vars

\* a graph has run after its tool was registered again with another
\* implementation, one that would have given another result
C15_RanAfterReplacement ==
    /\ response.call = "run" /\ response.status = 200
    /\ LET q == response.request
           g == GRAPHS[q.graph_id]
       IN  /\ registry["suggest_improvements"] # g.nodes["a"]
           /\ g.nodes["a"] = "suggest_improvements"
           /\ RunToEnd(NewFrame(GetGraphRebound(GRAPHS, q.graph_id),
                                q.initial_state.d, q.initial_state.lists)).result.final_state
                 # response.body.state

\* ------------------------------------------------------------------------
\* Properties of concurrent runs

\* every frame the call passes through when it runs alone
RECURSIVE Trajectory(_)
Trajectory(f) ==
    {f} \cup (IF f.pc = "await" THEN On(Trajectory, ResumeBody(f))
              ELSE IF f.pc = "loop" /\ LoopGuard(f) THEN On(Trajectory, LoopBody(f))
              ELSE IF LoopLeft(f) THEN {ExitBody(f)}
              ELSE {})

\* the call of frame f, run alone from what it was given
Alone(f) == NewFrame(f.graph, f.given, NoLists)

Completed(f, g) == f.pc \in {"loop", "await"} /\ Len(g.log) = Len(f.log) + 1

\* the conditional edge of the node frame f is at
EdgeAt(f) == EdgeGet(f.graph, f.current)

\* the target the conditional edge selects on the state of frame g
Selected(edge, g) ==
    IF EvaluateCondition(StateOf(g), edge).val THEN edge.true ELSE edge.false

\* C17: when a node with a conditional edge has executed, the condition is
\* evaluated on the state the node returned; the true target is selected when
\* it holds and the false target otherwise; the terminate sentinel ends the run
\* as Terminated(explicit_end), and no node executes after that; any other
\* target is the node the loop goes on with.
C17_BranchOnPostStepState ==
    [][\A r \in DOMAIN frames :
         LET f == frames[r]
             g == frames'[r]
         IN  /\ (/\ Completed(f, g)
                 /\ EdgeAt(f).kind = "conditional"
                 /\ EvaluateCondition(StateOf(g), EdgeAt(f)).err = NoError)
                => /\ Deep(g, StateOf(g)) = g.returned[Len(g.returned)]
                   /\ g.current = Selected(EdgeAt(f), g)
                   /\ g.pc = "loop"
                   /\ g.current = None =>
                         g.outcome = "Terminated" /\ g.reason = "explicit_end"
                   /\ g.current # None => g.outcome = "Running"
             /\ f.reason = "explicit_end" =>
                   /\ g.log = f.log /\ g.invoked = f.invoked
                   /\ g.outcome = "Terminated" /\ g.reason = "explicit_end"]_vars

\* the quality loop has ended on the second score: the condition failed on the
\* state the second step received and held on the state it returned
C17_SecondScoreEnded ==
    \E f \in Frames :
        /\ Returned(f) /\ f.reason = "explicit_end"
        /\ f.log = <<"a", "a">>
        /\ EdgeGet(f.graph, "a") = CondEdge("quality_score", ">=", IntV(60), None, "a")
        /\ f.passed[2]["quality_score"].items = <<55>>
        /\ f.returned[2]["quality_score"].items = <<60>>

\* C18: when a node whose conditional edge has a key has executed, an operator
\* that is none of the six fails the run with UnsupportedOperator, an ordering
\* operator on operands Python does not order fails it with TypeMismatch, and
\* nothing else fails the evaluation; the failure comes after the node is in the
\* trace, and the run has no result.
C18_OperatorsAndTypes ==
    [][\A r \in DOMAIN frames :
         LET f == frames[r]
             g == frames'[r]
             edge == EdgeAt(f)
             left == Get(StateOf(g), edge.key, NoneV)
             unsupported == edge.op \notin {"==", "!=", ">", "<", ">=", "<="}
             unordered == /\ edge.op \in {">", "<", ">=", "<="}
                          /\ ~Ordered(left, edge.value)
         IN  (/\ Completed(f, g)
              /\ edge.kind = "conditional"
              /\ edge.key # None)
             => /\ unsupported =>
                      /\ Raised(g) /\ g.error = Err("UnsupportedOperator", edge.op)
                /\ unordered =>
                      /\ Raised(g) /\ g.error = Err("TypeMismatch", edge.key)
                /\ Raised(g) =>
                      /\ unsupported \/ unordered
                      /\ g.outcome = "Failed"
                      /\ g.result = NoResult
                      /\ g.log = Append(f.log, f.current)
                      /\ g.current = f.current /\ g.steps = f.steps
                /\ ~(unsupported \/ unordered) => ~Raised(g)]_vars

\* a string score compared with >= against a number has failed the run
C18_StringAgainstNumber ==
    \E f \in Frames :
        /\ Raised(f) /\ f.error = Err("TypeMismatch", "quality_score")
        /\ EdgeGet(f.graph, "a").op = ">=" /\ EdgeGet(f.graph, "a").value = IntV(60)
        /\ f.log = <<"a">>
        /\ Get(StateOf(f), "quality_score", NoneV) = StrV(1)

\* C19: when the key of the condition is absent from the state the node
\* returned, the evaluation compares None with the literal: == selects the true
\* target exactly when the literal is None, != selects the true target when the
\* literal is not None, an ordering operator with a literal that is not None
\* fails with TypeMismatch, and no failure is about the absence.
C19_AbsentKeyIsNone ==
    [][\A r \in DOMAIN frames :
         LET f == frames[r]
             g == frames'[r]
             edge == EdgeAt(f)
         IN  (/\ Completed(f, g)
              /\ edge.kind = "conditional"
              /\ edge.key # None
              /\ edge.key \notin DOMAIN StateOf(g))
             => /\ edge.op = "==" =>
                      /\ ~Raised(g)
                      /\ g.current = IF edge.value = NoneV THEN edge.true ELSE edge.false
                /\ (edge.op = "!=" /\ edge.value # NoneV) =>
                      ~Raised(g) /\ g.current = edge.true
                /\ (edge.op \in {">", "<", ">=", "<="} /\ edge.value # NoneV) =>
                      Raised(g) /\ g.error = Err("TypeMismatch", edge.key)
                /\ Raised(g) => g.error.kind \in {"TypeMismatch", "UnsupportedOperator"}]_vars

\* a condition `== None` on a key no step wrote has selected its true target
C19_AbsentEqualsNone ==
    \E f \in Frames :
        /\ Returned(f) /\ f.reason = "explicit_end"
        /\ EdgeGet(f.graph, "a") = CondEdge("quality_score", "==", NoneV, None, "a")
        /\ "quality_score" \notin DOMAIN f.own
        /\ f.log = <<"a">>

\* C20: when the step of the current node, called or awaited, yields something
\* that is no mapping, the run raises InvalidStepOutput naming the step: state
\* stays bound to the mapping it was bound to, the node is not appended to the
\* trace, no edge is followed and there is no result.
C20_InvalidStepOutput ==
    [][\A r \in DOMAIN frames :
         LET f == frames[r]
             g == frames'[r]
             tool == f.graph.nodes[f.current]
         IN  (/\ g # f
              /\ \/ f.pc = "await"
                 \/ f.pc = "loop" /\ LoopGuard(f) /\ f.current \in DOMAIN f.graph.nodes
              /\ ToolBody(tool, StateOf(f), f.lists).kind = "notdict")
             => IF f.pc = "loop" /\ IsAwaitable(tool)
                THEN g = [f EXCEPT !.pc = "await"]
                ELSE /\ Raised(g) /\ g.outcome = "Failed"
                     /\ g.error = Err("InvalidStepOutput", tool)
                     /\ g.stateRef = f.stateRef /\ StateOf(g) = StateOf(f)
                     /\ g.log = f.log
                     /\ g.current = f.current /\ g.steps = f.steps
                     /\ g.result = NoResult]_vars

\* an awaited step has yielded no mapping after another node had executed
C20_AwaitedStepInvalid ==
    \E f \in Frames :
        /\ Raised(f) /\ f.error = Err("InvalidStepOutput", "async_not_a_dict")
        /\ f.log = <<"b">>
        /\ f.current = "a"

\* C21: at the loop head the bound is tested before the node is looked up: a
\* run whose step counter has reached max_steps with a node pending returns as
\* Aborted, with _warning and the state and trace it has, whether or not the
\* pending name is a node of the graph; it never raises UnknownNode for it.
C21_BoundBeforeResolution ==
    [][\A r \in DOMAIN frames :
         LET f == frames[r]
             g == frames'[r]
         IN  (/\ f.pc = "loop"
              /\ f.current # None
              /\ f.steps >= f.graph.max_steps
              /\ g # f)
             => /\ Returned(g)
                /\ g.outcome = "Aborted" /\ g.reason = "step_bound_reached"
                /\ g.error = NoError
                /\ g.invoked = f.invoked
                /\ g.result.log = f.log
                /\ "_warning" \in DOMAIN g.result.final_state
                /\ \A k \in DOMAIN StateOf(f) \ {"_warning", "_execution_log"} :
                      /\ k \in DOMAIN g.result.final_state
                      /\ g.result.final_state[k] = Deep(f, StateOf(f))[k]]_vars

\* a run was stopped by the bound while the pending node was no node of the graph
C21_AbortedBeforeUnknownNode ==
    \E f \in Frames :
        /\ Returned(f) /\ f.outcome = "Aborted"
        /\ f.current \notin DOMAIN f.graph.nodes
        /\ f.graph.max_steps >= 1
        /\ Len(f.result.log) = f.graph.max_steps
        /\ "_warning" \in DOMAIN f.result.final_state

====
